---- MODULE Spec2Model ----
(***************************************************************************)
(* Model of src/data/developer.py: four providers returning fresh literal  *)
(* mappings, the aggregator main() and the module-level entry-point block. *)
(*                                                                         *)
(* Python objects live on a heap: a dict or list literal allocates a new   *)
(* object every time it is evaluated, and a name holds a reference to it.  *)
(* A dict is an insertion-ordered sequence of items with distinct keys.    *)
(* Strings are kept in ASCII: a character outside it is written by its     *)
(* code point, "[U+00FC]" for u with diaeresis, "[U+1F44B]" for the waving *)
(* hand.                                                                   *)
(***************************************************************************)
EXTENDS Integers, Sequences, FiniteSets, TLC

VARIABLES name, pc, dev, stdout, exitCode, heap, calls, mutated

vars == <<name, pc, dev, stdout, exitCode, heap, calls, mutated>>

\* Bounds of the exploration.
MaxOps == 4

\* exitCode before the interpreter has exited.
NotExited == 0 - 1

(***************************************************************************)
(* Values and heap objects.                                                *)
(***************************************************************************)
Str(s) == [t |-> "str", s |-> s, a |-> 0]
Ref(a) == [t |-> "ref", s |-> "", a |-> a]
None == [t |-> "none", s |-> "", a |-> 0]

Item(k, v) == [key |-> k, val |-> v]
Dict(items) == [k |-> "dict", items |-> items, elems |-> <<>>]
List(elems) == [k |-> "list", items |-> <<>>, elems |-> elems]

Keys(items) == {items[i].key : i \in 1..Len(items)}

\* d[key] for a key that is present.
DictGet(items, key) == items[CHOOSE i \in 1..Len(items) : items[i].key = key].val

\* d[key] = val: overwrite in place when the key exists, else insert last.
DictSet(items, key, val) ==
  IF key \in Keys(items)
  THEN [i \in 1..Len(items) |->
          IF items[i].key = key THEN Item(key, val) ELSE items[i]]
  ELSE Append(items, Item(key, val))

\* del d[key]
DictDel(items, key) == SelectSeq(items, LAMBDA it : it.key /= key)

\* A dict display {k1: v1, **m, ...}: the entries are stored left to right,
\* so a key keeps the place of its first entry and the value of its last.
\* (The entries are bound by a quantifier so that they are evaluated once.)
Stored(e) ==
  LET n == Len(e)
      first == SelectSeq([i \in 1..n |-> i],
                 LAMBDA i : \A j \in 1..(i - 1) : e[j].key /= e[i].key)
      last(k) == CHOOSE i \in 1..n :
                   e[i].key = k /\ \A j \in (i + 1)..n : e[j].key /= k
  IN [m \in 1..Len(first) |->
        Item(e[first[m]].key, e[last(e[first[m]].key)].val)]

DictDisplay(entries) == CHOOSE d \in {Stored(e) : e \in {entries}} : TRUE

\* Allocation of a fresh object: the new address is Len(h) + 1.
Alloc(h, obj) == Append(h, obj)

(***************************************************************************)
(* The four providers.  Each evaluates its literal anew: the nested list   *)
(* displays first, then the dict display.                                  *)
(***************************************************************************)
\* Mutant: the name written without its diaeresis.
get_personal_info_ascii(h) ==
  LET d == Dict(DictDisplay(<<
             Item("name", Str("Javier Argueso")),
             Item("location", Str("Badajoz, Espa[U+00F1]a")),
             Item("role", Str("DevOps Engineer")),
             Item("motto", Str("Destroy Every Version On Production Servers")),
             Item("education",
                  Str("Ingenier[U+00ED]a Inform[U+00E1]tica - Universidad de Extremadura")),
             Item("certification", Str("Google Cloud Associate Engineer"))>>))
  IN [heap |-> Alloc(h, d), ref |-> Len(h) + 1]

get_personal_info(h) ==
  LET d == Dict(DictDisplay(<<
             Item("name", Str("Javier Arg[U+00FC]eso")),
             Item("location", Str("Badajoz, Espa[U+00F1]a")),
             Item("role", Str("DevOps Engineer")),
             Item("motto", Str("Destroy Every Version On Production Servers")),
             Item("education",
                  Str("Ingenier[U+00ED]a Inform[U+00E1]tica - Universidad de Extremadura")),
             Item("certification", Str("Google Cloud Associate Engineer"))>>))
  IN [heap |-> Alloc(h, d), ref |-> Len(h) + 1]

\* Mutant: the mapping is built once and the same object returned after.
get_skills_shared(h) ==
  LET old == {a \in 1..Len(h) :
                h[a].k = "dict" /\ "automation" \in Keys(h[a].items)}
      h1 == Alloc(h, List(<<"Google Cloud", "AWS", "Azure">>))
      h2 == Alloc(h1, List(<<"Kubernetes", "Docker", "Jenkins">>))
      h3 == Alloc(h2, List(<<"Python", "Bash">>))
      h4 == Alloc(h3, List(<<"GitLab CI/CD", "Azure DevOps">>))
      d == Dict(DictDisplay(<<
             Item("cloud", Ref(Len(h) + 1)),
             Item("automation", Ref(Len(h) + 2)),
             Item("programming", Ref(Len(h) + 3)),
             Item("ci_cd", Ref(Len(h) + 4))>>))
  IN IF old /= {}
     THEN [heap |-> h, ref |-> CHOOSE a \in old : \A b \in old : a <= b]
     ELSE [heap |-> Alloc(h4, d), ref |-> Len(h) + 5]

get_skills(h) ==
  LET h1 == Alloc(h, List(<<"Google Cloud", "AWS", "Azure">>))
      h2 == Alloc(h1, List(<<"Kubernetes", "Docker", "Jenkins">>))
      h3 == Alloc(h2, List(<<"Python", "Bash">>))
      h4 == Alloc(h3, List(<<"GitLab CI/CD", "Azure DevOps">>))
      d == Dict(DictDisplay(<<
             Item("cloud", Ref(Len(h) + 1)),
             Item("automation", Ref(Len(h) + 2)),
             Item("programming", Ref(Len(h) + 3)),
             Item("ci_cd", Ref(Len(h) + 4))>>))
  IN [heap |-> Alloc(h4, d), ref |-> Len(h) + 5]

\* Mutant: the mapping is built once and the same object returned after.
get_interests_shared(h) ==
  LET old == {a \in 1..Len(h) :
                h[a].k = "dict" /\ "personal" \in Keys(h[a].items)}
      h1 == Alloc(h, List(<<"Cloud Architecture", "Automation", "DevSecOps">>))
      h2 == Alloc(h1, List(<<"Metal Music", "Craft Beer", "Artisan Cheese">>))
      d == Dict(DictDisplay(<<
             Item("tech", Ref(Len(h) + 1)),
             Item("personal", Ref(Len(h) + 2))>>))
  IN IF old /= {}
     THEN [heap |-> h, ref |-> CHOOSE a \in old : \A b \in old : a <= b]
     ELSE [heap |-> Alloc(h2, d), ref |-> Len(h) + 3]

\* Mutant: a category left with no entries.
get_interests_empty(h) ==
  LET h1 == Alloc(h, List(<<"Cloud Architecture", "Automation", "DevSecOps">>))
      h2 == Alloc(h1, List(<<>>))
      d == Dict(DictDisplay(<<
             Item("tech", Ref(Len(h) + 1)),
             Item("personal", Ref(Len(h) + 2))>>))
  IN [heap |-> Alloc(h2, d), ref |-> Len(h) + 3]

get_interests(h) ==
  LET h1 == Alloc(h, List(<<"Cloud Architecture", "Automation", "DevSecOps">>))
      h2 == Alloc(h1, List(<<"Metal Music", "Craft Beer", "Artisan Cheese">>))
      d == Dict(DictDisplay(<<
             Item("tech", Ref(Len(h) + 1)),
             Item("personal", Ref(Len(h) + 2))>>))
  IN [heap |-> Alloc(h2, d), ref |-> Len(h) + 3]

get_contact(h) ==
  LET d == Dict(DictDisplay(<<
             Item("github", Str("srcheesedev")),
             Item("linkedin", Str("javier-argueso-soto")),
             Item("instagram", Str("srcheese.dev"))>>))
  IN [heap |-> Alloc(h, d), ref |-> Len(h) + 1]

(***************************************************************************)
(* The aggregator: ** unpacks the items of the personal-info dict into the *)
(* new dict, then the three nested mappings are stored by reference.       *)
(***************************************************************************)
\* Mutant: the personal-info mapping is not unpacked into the profile.
main_no_unpack(h) ==
  LET pi == get_personal_info(h)
      sk == get_skills(pi.heap)
      it == get_interests(sk.heap)
      ct == get_contact(it.heap)
      profile == Dict(DictDisplay(<<
                     Item("skills", Ref(sk.ref)),
                     Item("interests", Ref(it.ref)),
                     Item("contact", Ref(ct.ref))>>))
  IN [heap |-> Alloc(ct.heap, profile), ref |-> Len(ct.heap) + 1]

\* Mutant: two of the nested mappings stored under each other's key.
main_swapped(h) ==
  LET pi == get_personal_info(h)
      sk == get_skills(pi.heap)
      it == get_interests(sk.heap)
      ct == get_contact(it.heap)
      profile == Dict(DictDisplay(
                   ct.heap[pi.ref].items \o <<
                     Item("skills", Ref(it.ref)),
                     Item("interests", Ref(sk.ref)),
                     Item("contact", Ref(ct.ref))>>))
  IN [heap |-> Alloc(ct.heap, profile), ref |-> Len(ct.heap) + 1]

\* Mutant: the skills mapping stored under a key of the personal info.
main_collide(h) ==
  LET pi == get_personal_info(h)
      sk == get_skills(pi.heap)
      it == get_interests(sk.heap)
      ct == get_contact(it.heap)
      profile == Dict(DictDisplay(
                   ct.heap[pi.ref].items \o <<
                     Item("role", Ref(sk.ref)),
                     Item("interests", Ref(it.ref)),
                     Item("contact", Ref(ct.ref))>>))
  IN [heap |-> Alloc(ct.heap, profile), ref |-> Len(ct.heap) + 1]

main(h) ==
  LET pi == get_personal_info(h)
      sk == get_skills(pi.heap)
      it == get_interests(sk.heap)
      ct == get_contact(it.heap)
      profile == Dict(DictDisplay(
                   ct.heap[pi.ref].items \o <<
                     Item("skills", Ref(sk.ref)),
                     Item("interests", Ref(it.ref)),
                     Item("contact", Ref(ct.ref))>>))
  IN [heap |-> Alloc(ct.heap, profile), ref |-> Len(ct.heap) + 1]

Providers == {"get_personal_info", "get_skills", "get_interests", "get_contact"}

Call(fn, h) ==
  CASE fn = "get_personal_info" -> get_personal_info(h)
    [] fn = "get_skills" -> get_skills(h)
    [] fn = "get_interests" -> get_interests(h)
    [] fn = "get_contact" -> get_contact(h)
    [] fn = "main" -> main(h)

\* The contents reachable from a value, as a tree.
RECURSIVE Deep(_, _)
Deep(h, c) ==
  IF c.t = "str" THEN [str |-> c.s]
  ELSE LET o == h[c.a] IN
       IF o.k = "list" THEN [list |-> o.elems]
       ELSE [dict |-> [i \in 1..Len(o.items) |->
                         Item(o.items[i].key, Deep(h, o.items[i].val))]]

\* Python's == on such trees: dicts compare as mappings, lists in order.
RECURSIVE PyEq(_, _)
PyEq(x, y) ==
  IF DOMAIN x /= DOMAIN y THEN FALSE
  ELSE IF "str" \in DOMAIN x THEN x.str = y.str
  ELSE IF "list" \in DOMAIN x THEN x.list = y.list
  ELSE /\ Len(x.dict) = Len(y.dict)
       /\ Keys(x.dict) = Keys(y.dict)
       /\ \A k \in Keys(x.dict) : PyEq(DictGet(x.dict, k), DictGet(y.dict, k))

(***************************************************************************)
(* The module body.                                                        *)
(***************************************************************************)
ModuleNames == {"__main__", "developer"}

\* Mutant: the presentation is not gated by the entry-point check.
IsEntryPoint_always(n) == n \in {"__main__", "developer"}

\* if __name__ == "__main__":
IsEntryPoint(n) == n = "__main__"

Init ==
  /\ name \in ModuleNames
  /\ pc = "l47"
  /\ dev = None
  /\ stdout = <<>>
  /\ exitCode = NotExited
  /\ heap = <<>>
  /\ calls = <<>>
  /\ mutated = <<>>

\* Line 47: the entry-point check; an imported module is done loading.
EntryCheck ==
  /\ pc = "l47"
  /\ pc' = IF IsEntryPoint(name) THEN "l48" ELSE "imported"
  /\ UNCHANGED <<name, dev, stdout, exitCode, heap, calls, mutated>>

Logged(fn, r) ==
  [fn |-> fn, ref |-> r.ref, snap |-> Deep(r.heap, Ref(r.ref)),
   nmut |-> Len(mutated)]

\* Line 48: dev = main()
CallMainEntry ==
  /\ pc = "l48"
  /\ \E r \in {main(heap)} :
       /\ heap' = r.heap
       /\ dev' = Ref(r.ref)
       /\ calls' = Append(calls, Logged("main", r))
  /\ pc' = "l49"
  /\ UNCHANGED <<name, stdout, exitCode, mutated>>

\* dev[k] inside an f-string: the text of a str, the repr of anything else.
Format(c) == IF c.t = "str" THEN c.s ELSE "{...}"

\* Mutant: the last statement subscripts a key the profile does not have.
Fields_typo(l) ==
  CASE l = "l49" -> <<"name", "role">>
    [] l = "l50" -> <<"location">>
    [] l = "l51" -> <<"motto">>
    [] l = "l52" -> <<"education">>
    [] l = "l53" -> <<"certifications">>

\* The fields each output statement subscripts, in evaluation order.
Fields(l) ==
  CASE l = "l49" -> <<"name", "role">>
    [] l = "l50" -> <<"location">>
    [] l = "l51" -> <<"motto">>
    [] l = "l52" -> <<"education">>
    [] l = "l53" -> <<"certification">>

\* Mutant: the motto and education statements write each other's field.
Text_swapped(l, d) ==
  CASE l = "l49" -> "[U+1F44B]" \o " " \o Format(DictGet(d, "name")) \o " - "
                      \o Format(DictGet(d, "role"))
    [] l = "l50" -> "[U+1F4CD]" \o " " \o Format(DictGet(d, "location"))
    [] l = "l51" -> "[U+1F4AD]" \o " " \o Format(DictGet(d, "education"))
    [] l = "l52" -> "[U+1F393]" \o " " \o Format(DictGet(d, "motto"))
    [] l = "l53" -> "[U+2601][U+FE0F]" \o " " \o Format(DictGet(d, "certification"))

\* The f-string of each output statement.
Text(l, d) ==
  CASE l = "l49" -> "[U+1F44B]" \o " " \o Format(DictGet(d, "name")) \o " - "
                      \o Format(DictGet(d, "role"))
    [] l = "l50" -> "[U+1F4CD]" \o " " \o Format(DictGet(d, "location"))
    [] l = "l51" -> "[U+1F4AD]" \o " " \o Format(DictGet(d, "motto"))
    [] l = "l52" -> "[U+1F393]" \o " " \o Format(DictGet(d, "education"))
    [] l = "l53" -> "[U+2601][U+FE0F]" \o " " \o Format(DictGet(d, "certification"))

Following(l) ==
  CASE l = "l49" -> "l50"
    [] l = "l50" -> "l51"
    [] l = "l51" -> "l52"
    [] l = "l52" -> "l53"
    [] l = "l53" -> "end"

\* One output statement: a missing key raises KeyError, which nothing
\* catches, so the interpreter exits with status 1 and writes no line.
WriteLine(l) ==
  /\ pc = l
  /\ LET d == heap[dev.a].items IN
       IF \A i \in 1..Len(Fields(l)) : Fields(l)[i] \in Keys(d)
       THEN /\ stdout' = Append(stdout, Text(l, d))
            /\ pc' = Following(l)
            /\ exitCode' = exitCode
       ELSE /\ stdout' = stdout
            /\ pc' = "error"
            /\ exitCode' = 1
  /\ UNCHANGED <<name, dev, heap, calls, mutated>>

WriteLine49 == WriteLine("l49")
WriteLine50 == WriteLine("l50")
WriteLine51 == WriteLine("l51")
WriteLine52 == WriteLine("l52")
WriteLine53 == WriteLine("l53")

\* The end of the module body when run as a script: normal exit.
Exit ==
  /\ pc = "end"
  /\ pc' = "done"
  /\ exitCode' = 0
  /\ UNCHANGED <<name, dev, stdout, heap, calls, mutated>>

(***************************************************************************)
(* The library surface: code that imported the module calls the providers  *)
(* and the aggregator, keeps what they return and may mutate it.           *)
(***************************************************************************)
CallFn(fn) ==
  /\ pc = "imported"
  /\ Len(calls) + Len(mutated) < MaxOps
  /\ \E r \in {Call(fn, heap)} :
       /\ heap' = r.heap
       /\ calls' = Append(calls, Logged(fn, r))
  /\ UNCHANGED <<name, pc, dev, stdout, exitCode, mutated>>

CallProvider == \E fn \in Providers : CallFn(fn)

CallAggregator == CallFn("main")

\* The keys a caller's mutation may name.
MutKeys == {"name", "cloud", "skills", "extra"}

\* The objects a caller reaches from a returned mapping: the mapping itself
\* and the objects stored under its keys.
Reach(h, root) ==
  {root} \cup {DictGet(h[root].items, k).a :
                 k \in {q \in Keys(h[root].items) \cap MutKeys :
                          DictGet(h[root].items, q).t = "ref"}}

\* obj[k] = "x"
SetItem(root, a, k) ==
  /\ heap[a].k = "dict"
  /\ heap' = [heap EXCEPT ![a] = Dict(DictSet(heap[a].items, k, Str("x")))]
  /\ mutated' = Append(mutated, root)

\* del obj[k]
DelItem(root, a, k) ==
  /\ heap[a].k = "dict"
  /\ k \in Keys(heap[a].items)
  /\ heap' = [heap EXCEPT ![a] = Dict(DictDel(heap[a].items, k))]
  /\ mutated' = Append(mutated, root)

\* obj.append("x")
AppendElem(root, a) ==
  /\ heap[a].k = "list"
  /\ heap' = [heap EXCEPT ![a] = List(Append(heap[a].elems, "x"))]
  /\ mutated' = Append(mutated, root)

Mutate ==
  /\ pc = "imported"
  /\ Len(calls) + Len(mutated) < MaxOps
  /\ \E i \in 1..Len(calls) :
       \E a \in Reach(heap, calls[i].ref) :
         \/ \E k \in MutKeys : SetItem(calls[i].ref, a, k)
         \/ \E k \in MutKeys : DelItem(calls[i].ref, a, k)
         \/ AppendElem(calls[i].ref, a)
  /\ UNCHANGED <<name, pc, dev, stdout, exitCode, calls>>

Next ==
  \/ EntryCheck
  \/ CallMainEntry
  \/ WriteLine49
  \/ WriteLine50
  \/ WriteLine51
  \/ WriteLine52
  \/ WriteLine53
  \/ Exit
  \/ CallProvider
  \/ CallAggregator
  \/ Mutate

Spec == Init /\ [][Next]_vars

\* The interpreter keeps executing the module body until it exits.
Script ==
  \/ EntryCheck
  \/ CallMainEntry
  \/ WriteLine49
  \/ WriteLine50
  \/ WriteLine51
  \/ WriteLine52
  \/ WriteLine53
  \/ Exit

FairSpec == Spec /\ WF_vars(Script)

(***************************************************************************)
(* Properties.                                                             *)
(***************************************************************************)
CallsOf(fn) == {i \in 1..Len(calls) : calls[i].fn = fn}

\* What a call of fn made now would return.
Fresh(fn) ==
  CHOOSE d \in {Deep(r.heap, Ref(r.ref)) : r \in {Call(fn, heap)}} : TRUE

\* x == y in Python, with both sides evaluated once.
Same(x, y) == \A a \in {x} : \A b \in {y} : PyEq(a, b)

PersonalKeys ==
  {"name", "location", "role", "motto", "education", "certification"}
NestedKeys == {"skills", "interests", "contact"}

TStr(s) == [str |-> s]
TList(e) == [list |-> e]
TDict(items) == [dict |-> items]

PersonalInfoItems == <<
  Item("name", TStr("Javier Arg[U+00FC]eso")),
  Item("location", TStr("Badajoz, Espa[U+00F1]a")),
  Item("role", TStr("DevOps Engineer")),
  Item("motto", TStr("Destroy Every Version On Production Servers")),
  Item("education",
       TStr("Ingenier[U+00ED]a Inform[U+00E1]tica - Universidad de Extremadura")),
  Item("certification", TStr("Google Cloud Associate Engineer"))>>

SkillsValue == TDict(<<
  Item("cloud", TList(<<"Google Cloud", "AWS", "Azure">>)),
  Item("automation", TList(<<"Kubernetes", "Docker", "Jenkins">>)),
  Item("programming", TList(<<"Python", "Bash">>)),
  Item("ci_cd", TList(<<"GitLab CI/CD", "Azure DevOps">>))>>)

InterestsValue == TDict(<<
  Item("tech", TList(<<"Cloud Architecture", "Automation", "DevSecOps">>)),
  Item("personal", TList(<<"Metal Music", "Craft Beer", "Artisan Cheese">>))>>)

ContactValue == TDict(<<
  Item("github", TStr("srcheesedev")),
  Item("linkedin", TStr("javier-argueso-soto")),
  Item("instagram", TStr("srcheese.dev"))>>)

FixedContents(fn) ==
  CASE fn = "get_personal_info" -> TDict(PersonalInfoItems)
    [] fn = "get_skills" -> SkillsValue
    [] fn = "get_interests" -> InterestsValue
    [] fn = "get_contact" -> ContactValue
    [] fn = "main" -> TDict(PersonalInfoItems \o <<
                        Item("skills", SkillsValue),
                        Item("interests", InterestsValue),
                        Item("contact", ContactValue)>>)

\* C1: the mapping main() returns has exactly nine distinct keys: the six
\* personal-info keys and skills, interests, contact; none lost, none
\* duplicated, no other key.
C1_ProfileKeySet ==
  \A i \in CallsOf("main") :
    LET items == calls[i].snap.dict IN
      /\ Keys(items) = PersonalKeys \cup NestedKeys
      /\ Len(items) = 9
      /\ Cardinality(Keys(items)) = 9
      /\ Keys(Fresh("get_personal_info").dict) \subseteq Keys(items)

C1_Witness ==
  /\ name = "developer"
  /\ CallsOf("main") /= {}
  /\ \E i \in CallsOf("main") : Len(calls[i].snap.dict) = 9

\* C2: in the mapping main() returns, the values under skills, interests and
\* contact equal what get_skills(), get_interests() and get_contact() return:
\* the same keys and the same lists in the same order.
NestedProvider(k) ==
  CASE k = "skills" -> "get_skills"
    [] k = "interests" -> "get_interests"
    [] k = "contact" -> "get_contact"

C2_NestedEqualProviders ==
  \A i \in CallsOf("main") :
    \A k \in NestedKeys :
      /\ k \in Keys(calls[i].snap.dict)
      /\ Same(DictGet(calls[i].snap.dict, k), Fresh(NestedProvider(k)))
      /\ \A j \in CallsOf(NestedProvider(k)) :
           Same(DictGet(calls[i].snap.dict, k), calls[j].snap)

C2_Witness ==
  /\ CallsOf("main") /= {}
  /\ CallsOf("get_skills") /= {}
  /\ CallsOf("get_interests") /= {}
  /\ CallsOf("get_contact") /= {}
  /\ \E i \in CallsOf("main") : \E j \in CallsOf("get_skills") :
       DictGet(calls[i].snap.dict, "skills").dict[1].val.list
         = calls[j].snap.dict[1].val.list

\* C7: get_personal_info() returns exactly the six fields name, location,
\* role, motto, education, certification with their literal values.
C7_PersonalInfoLiteral ==
  \A i \in CallsOf("get_personal_info") :
    /\ Len(calls[i].snap.dict) = 6
    /\ Same(calls[i].snap, TDict(PersonalInfoItems))

C7_Witness ==
  \E i \in CallsOf("get_personal_info") :
    DictGet(calls[i].snap.dict, "name") = TStr("Javier Arg[U+00FC]eso")

\* C8: main() copies every personal-info field unchanged, and none of the
\* keys skills, interests, contact overwrites a personal-info key.
C8_PersonalFieldsCopied ==
  \A i \in CallsOf("main") :
    LET p == Fresh("get_personal_info").dict
        m == calls[i].snap.dict
    IN /\ Keys(p) \cap NestedKeys = {}
       /\ \A k \in Keys(p) : k \in Keys(m) /\ DictGet(m, k) = DictGet(p, k)
       /\ \A j \in CallsOf("get_personal_info") :
            \A k \in Keys(calls[j].snap.dict) :
              k \in Keys(m) /\ DictGet(m, k) = DictGet(calls[j].snap.dict, k)

C8_Witness ==
  \E i \in CallsOf("main") : \E j \in CallsOf("get_personal_info") :
    /\ Len(calls[j].snap.dict) = 6
    /\ DictGet(calls[i].snap.dict, "role") = DictGet(calls[j].snap.dict, "role")

\* C9: every profile main() returns has all fields present and non-empty:
\* six non-empty personal strings; skills with the four categories and
\* interests with the two, each a non-empty list of non-empty strings;
\* contact with the three platforms, each a non-empty handle.
NonEmptyStr(v) == DOMAIN v = {"str"} /\ v.str /= ""
NonEmptyList(v) ==
  /\ DOMAIN v = {"list"}
  /\ v.list /= <<>>
  /\ \A n \in 1..Len(v.list) : v.list[n] /= ""
DictOver(v, keys) ==
  DOMAIN v = {"dict"} /\ Keys(v.dict) = keys /\ Len(v.dict) = Cardinality(keys)

C9_ProfileNonEmpty ==
  \A i \in CallsOf("main") :
    LET m == calls[i].snap.dict IN
      /\ PersonalKeys \cup NestedKeys \subseteq Keys(m)
      /\ \A k \in PersonalKeys : NonEmptyStr(DictGet(m, k))
      /\ DictOver(DictGet(m, "skills"),
                  {"cloud", "automation", "programming", "ci_cd"})
      /\ \A n \in 1..Len(DictGet(m, "skills").dict) :
           NonEmptyList(DictGet(m, "skills").dict[n].val)
      /\ DictOver(DictGet(m, "interests"), {"tech", "personal"})
      /\ \A n \in 1..Len(DictGet(m, "interests").dict) :
           NonEmptyList(DictGet(m, "interests").dict[n].val)
      /\ DictOver(DictGet(m, "contact"), {"github", "linkedin", "instagram"})
      /\ \A n \in 1..Len(DictGet(m, "contact").dict) :
           NonEmptyStr(DictGet(m, "contact").dict[n].val)

C9_Witness ==
  \E i \in CallsOf("main") :
    /\ Len(DictGet(calls[i].snap.dict, "skills").dict) = 4
    /\ Len(DictGet(calls[i].snap.dict, "interests").dict) = 2
    /\ Len(DictGet(calls[i].snap.dict, "contact").dict) = 3

\* C5: any two calls of the same provider in one run return equal mappings,
\* whatever calls (and mutations of returned mappings) happened in between.
C5_ProvidersDeterministic ==
  \A fn \in Providers :
    \A i, j \in CallsOf(fn) : Same(calls[i].snap, calls[j].snap)

C5_Witness ==
  \E fn \in Providers :
    \E i, j \in CallsOf(fn) :
      /\ j >= i + 2
      /\ calls[i + 1].fn /= fn
      /\ calls[j].snap = calls[i].snap

\* C6: mappings are returned with no shared mutable ownership: after a
\* caller mutates a returned mapping or an object nested in it, every call
\* still returns the original fixed contents, and every mapping the caller
\* did not mutate still has the contents it was returned with.
Range(q) == {q[n] : n \in 1..Len(q)}

C6_NoSharedOwnership ==
  \A i \in 1..Len(calls) :
    /\ Same(calls[i].snap, FixedContents(calls[i].fn))
    /\ calls[i].ref \notin Range(mutated)
         => Same(Deep(heap, Ref(calls[i].ref)), calls[i].snap)

C6_Witness ==
  \E i, j, k \in 1..Len(calls) :
    /\ calls[i].ref \in Range(mutated)
    /\ ~Same(Deep(heap, Ref(calls[i].ref)), calls[i].snap)
    /\ j < i /\ calls[j].fn = calls[i].fn
    /\ calls[j].ref \notin Range(mutated)
    /\ k > i /\ calls[k].nmut > 0 /\ calls[k].fn = calls[i].fn

\* C3: a direct run writes exactly five lines, in the order name and role,
\* location, motto, education, certification; each line is non-empty and
\* contains its profile field values, and nothing else is written.
Contains(line, s) ==
  \E n \in 1..(Len(line) - Len(s) + 1) : SubSeq(line, n, n + Len(s) - 1) = s

LineFields(n) ==
  CASE n = 1 -> {"name", "role"}
    [] n = 2 -> {"location"}
    [] n = 3 -> {"motto"}
    [] n = 4 -> {"education"}
    [] n = 5 -> {"certification"}

\* The number of lines written when control is at pc.
Written(l) ==
  CASE l \in {"l47", "l48", "l49"} -> 0
    [] l = "l50" -> 1
    [] l = "l51" -> 2
    [] l = "l52" -> 3
    [] l = "l53" -> 4
    [] l \in {"end", "done"} -> 5
    [] OTHER -> 0 - 1

C3_FiveLinesInOrder ==
  name = "__main__" =>
    /\ Len(stdout) = Written(pc)
    /\ \A n \in 1..Len(stdout) :
         /\ stdout[n] /= ""
         /\ \A f \in LineFields(n) :
              /\ f \in Keys(heap[dev.a].items)
              /\ DictGet(heap[dev.a].items, f).t = "str"
              /\ DictGet(heap[dev.a].items, f).s /= ""
              /\ Contains(stdout[n], DictGet(heap[dev.a].items, f).s)

C3_Witness ==
  /\ name = "__main__"
  /\ pc = "done"
  /\ Len(stdout) = 5
  /\ Contains(stdout[5], "Google Cloud Associate Engineer")

\* C4: when the module is imported the presentation step does not run and
\* nothing is written to standard output, whatever calls the importer makes.
C4_ImportWritesNothing ==
  name /= "__main__" =>
    /\ stdout = <<>>
    /\ pc \in {"l47", "imported"}
    /\ dev = None
    /\ exitCode = NotExited

C4_Witness ==
  /\ name = "developer"
  /\ pc = "imported"
  /\ CallsOf("main") /= {}
  /\ \A fn \in {"get_personal_info", "get_skills", "get_contact"} :
       CallsOf(fn) /= {}
  /\ stdout = <<>>

\* C10: a direct run is one straight-line pass that terminates normally:
\* main() is called exactly once, before the first line is written; control
\* only moves forward; no error state is reached; and the run reaches its
\* normal exit, status 0, after the fifth line.
Position(l) ==
  CASE l = "l47" -> 0
    [] l = "l48" -> 1
    [] l = "l49" -> 2
    [] l = "l50" -> 3
    [] l = "l51" -> 4
    [] l = "l52" -> 5
    [] l = "l53" -> 6
    [] l = "end" -> 7
    [] l = "done" -> 8
    [] OTHER -> 0 - 1

DirectRunSafe ==
  name = "__main__" =>
    /\ Position(pc) >= 0
    /\ Cardinality(CallsOf("main")) = (IF Position(pc) >= 2 THEN 1 ELSE 0)
    /\ stdout /= <<>> => Cardinality(CallsOf("main")) = 1
    /\ Len(calls) = Cardinality(CallsOf("main"))
    /\ exitCode = (IF pc = "done" THEN 0 ELSE NotExited)
    /\ pc = "done" => Len(stdout) = 5

C10_StraightLineTermination ==
  /\ []DirectRunSafe
  /\ [][name = "__main__" => Position(pc') = Position(pc) + 1]_vars
  /\ (name = "__main__") ~> (pc = "done" /\ exitCode = 0 /\ Len(stdout) = 5)

C10_Witness ==
  /\ name = "__main__"
  /\ pc = "done"
  /\ exitCode = 0
  /\ Cardinality(CallsOf("main")) = 1
  /\ Len(stdout) = 5

====
